---- MODULE Spec2Model ----
(***************************************************************************)
(* A model of the two near-duplicate modules of SPICE,                     *)
(*   spice/spectra.py                      (module "spectra")              *)
(*   spectrum_integrator/spectrum_mlp.py   (module "mlp")                  *)
(* as one Python process: each module is imported by running its top-level *)
(* statements in order, and once a module is ready its entry points are    *)
(* called with inputs drawn from small sets.                               *)
(*                                                                         *)
(* Values are tagged tuples whose first component is a string:             *)
(*   <<"err", kind>>        a raised exception                             *)
(*   <<"arr", <<v1..vn>>>>  an array, axis 0 of length n                   *)
(*   <<"f32", s, m, e>>     the float32 (-1)^s * m * 2^e, m = 0 or         *)
(*                          2^23 <= m < 2^24                               *)
(*   <<"lit", n>>           an opaque scalar input                         *)
(*   <<"log10", t>>, <<"add", a, b>>, <<"div", a, b>>, <<"mul", a, b>>,    *)
(*   <<"sub", a, b>>        scalar results of the named jnp operation      *)
(*   <<"flux", w, p, x>>    the network's scalar output                    *)
(* The transcendental and network operations stay symbolic: a term records *)
(* exactly which operations were applied to which inputs, in which order.  *)
(* The scaler's arithmetic is computed bit for bit in float32.             *)
(***************************************************************************)
EXTENDS Integers, Sequences, FiniteSets, TLC

(***************************************************************************)
(* Bounds of the model.                                                    *)
(***************************************************************************)
MaxRows == 2        \* parameter sets / velocities / abundances per batch
MaxWave == 2        \* wavelengths per grid
MaxStars == 2       \* distinct parameter sets to choose from

(***************************************************************************)
(* float32 arithmetic (round to nearest, ties to even).                    *)
(***************************************************************************)
MantBits == 24
GuardBits == 3
DivBits == 26
MicroUnit == 10^6    \* decimal literals are held in units of 10^-6

F32(s, m, e) == <<"f32", s, m, e>>

Zero32 == F32(0, 0, 0)

One32 == F32(0, 2^(MantBits - 1), 1 - MantBits)

RECURSIVE BitLen(_)
BitLen(S) == IF S = 0 THEN 0 ELSE 1 + BitLen(S \div 2)

\* The float32 nearest to (-1)^s * S * 2^e, where the lowest bit of S may be
\* a sticky bit standing for a nonzero remainder below it.
RoundNorm(s, S, e) ==
  IF S = 0 THEN Zero32
  ELSE LET k == BitLen(S) - MantBits
       IN  IF k <= 0 THEN F32(s, S * 2^(0 - k), e + k)
           ELSE LET q    == S \div 2^k
                    r    == S % 2^k
                    half == 2^(k - 1)
                    q1   == IF r > half \/ (r = half /\ q % 2 = 1)
                            THEN q + 1 ELSE q
                IN  IF q1 = 2^MantBits
                    THEN F32(s, 2^(MantBits - 1), e + k + 1)
                    ELSE F32(s, q1, e + k)

\* S shifted right by d bits, the bits shifted out kept as a sticky bit.
ShrJam(S, d) ==
  IF d >= MantBits + GuardBits + 1 THEN (IF S = 0 THEN 0 ELSE 1)
  ELSE LET q == S \div 2^d
       IN  IF S % 2^d = 0 \/ q % 2 = 1 THEN q ELSE q + 1

F32Neg(a) == IF a[3] = 0 THEN a ELSE F32(1 - a[2], a[3], a[4])

F32Add(a, b) ==
  IF a[3] = 0 THEN b
  ELSE IF b[3] = 0 THEN a
  ELSE LET aBig == a[4] > b[4] \/ (a[4] = b[4] /\ a[3] >= b[3])
           x == IF aBig THEN a ELSE b
           y == IF aBig THEN b ELSE a
           X == x[3] * 2^GuardBits
           Y == ShrJam(y[3] * 2^GuardBits, x[4] - y[4])
           S == IF x[2] = y[2] THEN X + Y ELSE X - Y
       IN  RoundNorm(x[2], S, x[4] - GuardBits)

F32Sub(a, b) == F32Add(a, F32Neg(b))

\* n more quotient bits of rem / d by long division: <<quotient, remainder>>.
RECURSIVE DivSteps(_, _, _, _)
DivSteps(rem, d, n, q) ==
  IF n = 0 THEN <<q, rem>>
  ELSE IF 2 * rem >= d THEN DivSteps(2 * rem - d, d, n - 1, 2 * q + 1)
       ELSE DivSteps(2 * rem, d, n - 1, 2 * q)

\* a / b for b # 0.
F32Div(a, b) ==
  IF a[3] = 0 THEN Zero32
  ELSE LET q0 == IF a[3] >= b[3] THEN 1 ELSE 0
           qr == DivSteps(a[3] - q0 * b[3], b[3], DivBits, q0)
           S  == 2 * qr[1] + (IF qr[2] = 0 THEN 0 ELSE 1)
       IN  RoundNorm((a[2] + b[2]) % 2, S, a[4] - b[4] - DivBits - 1)

\* Binary expansion of q + r/MicroUnit until q has more than DivBits bits.
RECURSIVE MicroSteps(_, _, _)
MicroSteps(q, r, e) ==
  IF q >= 2^DivBits THEN <<q, r, e>>
  ELSE MicroSteps(2 * q + (IF 2 * r >= MicroUnit THEN 1 ELSE 0),
                  (2 * r) % MicroUnit, e - 1)

\* The float32 of the decimal literal n / 10^6.
F32FromMicro(n) ==
  IF n = 0 THEN Zero32
  ELSE LET a   == IF n < 0 THEN 0 - n ELSE n
           qre == MicroSteps(a \div MicroUnit, a % MicroUnit, 0)
       IN  RoundNorm(IF n < 0 THEN 1 ELSE 0,
                     2 * qre[1] + (IF qre[2] = 0 THEN 0 ELSE 1), qre[3] - 1)

F32Lt(a, b) == LET d == F32Sub(a, b) IN d[3] # 0 /\ d[2] = 1

(***************************************************************************)
(* Values: errors, arrays, symbolic scalars.                               *)
(***************************************************************************)
Err(kind) == <<"err", kind>>

IsErr(x) == x[1] = "err"

Arr(elems) == <<"arr", elems>>

IsArr(x) == x[1] = "arr"

Lit(n) == <<"lit", n>>

AxisSize(x) == Len(x[2])

At(x, i) == x[2][i]

RECURSIVE Rank(_)
Rank(x) == IF IsArr(x) THEN 1 + Rank(At(x, 1)) ELSE 0

\* The scalars of an array in row-major order.
RECURSIVE Ravel(_)
RECURSIVE RavelSeq(_, _)
Ravel(x) == IF IsArr(x) THEN RavelSeq(x[2], 1) ELSE <<x>>
RavelSeq(s, i) == IF i > Len(s) THEN <<>> ELSE Ravel(s[i]) \o RavelSeq(s, i + 1)

\* ndarray.flatten()
Flatten(x) == IF IsErr(x) THEN x ELSE Arr(Ravel(x))

\* ndarray.reshape((-1, cols))
Reshape(x, cols) ==
  IF IsErr(x) THEN x
  ELSE LET flat == Ravel(x)
       IN  IF Len(flat) % cols # 0 THEN Err("TypeError_reshape")
           ELSE Arr([r \in 1..(Len(flat) \div cols) |->
                      Arr([k \in 1..cols |-> flat[(r - 1) * cols + k]])])

\* jnp.log10(x), elementwise.
RECURSIVE Log10E(_)
Log10E(x) ==
  IF IsErr(x) THEN x
  ELSE IF IsArr(x) THEN Arr([i \in 1..AxisSize(x) |-> Log10E(At(x, i))])
  ELSE <<"log10", x>>

\* x + t for a scalar t, elementwise (broadcast).
RECURSIVE AddE(_, _)
AddE(x, t) ==
  IF IsErr(x) THEN x
  ELSE IF IsArr(x) THEN Arr([i \in 1..AxisSize(x) |-> AddE(At(x, i), t)])
  ELSE <<"add", x, t>>

\* x * t for a scalar t, elementwise (broadcast).
RECURSIVE MulE(_, _)
MulE(x, t) ==
  IF IsErr(x) THEN x
  ELSE IF IsArr(x) THEN Arr([i \in 1..AxisSize(x) |-> MulE(At(x, i), t)])
  ELSE <<"mul", x, t>>

\* 1 - x, elementwise.
RECURSIVE OneMinusE(_)
OneMinusE(x) ==
  IF IsErr(x) THEN x
  ELSE IF IsArr(x) THEN Arr([i \in 1..AxisSize(x) |-> OneMinusE(At(x, i))])
  ELSE <<"sub", Lit(1), x>>

\* The results of a mapped function, stacked along a new axis 0; an
\* exception raised in the mapped function leaves vmap as it is.
Stack(rs) ==
  IF \E i \in DOMAIN rs : IsErr(rs[i])
  THEN rs[CHOOSE i \in DOMAIN rs :
            IsErr(rs[i]) /\ \A j \in 1..(i - 1) : ~IsErr(rs[j])]
  ELSE Arr(rs)

\* jax.vmap over the arguments with in_axes 0: the size of the mapped axis,
\* or the ValueError vmap raises for an argument of rank 0 or for mapped
\* axes of different sizes.
VmapAxis(mapped) ==
  IF \E x \in mapped : ~IsArr(x) THEN Err("ValueError_vmap_rank")
  ELSE IF Cardinality({AxisSize(x) : x \in mapped}) # 1 THEN Err("ValueError_vmap_size")
  ELSE <<"size", CHOOSE k \in {AxisSize(x) : x \in mapped} : TRUE>>

(***************************************************************************)
(* Program constants.  Decimal literals are held in units of 10^-6.        *)
(* Python indexes from 0 and TLA+ from 1: min_p[0] of the source is        *)
(* min_p[1] here, and element index k of the source is slot k + 1.         *)
(***************************************************************************)
OVERABUNDANCES == <<"Mn", "Fe", "Si", "Ca", "C", "N", "O", "Hg">>

min_p == <<3845098, 3500000, 0, -1000000, -3000000, -3000000, -3000000,
           -3000000, -3000000, -3000000, -3000000, -3000000>>

max_p == <<3929419, 5000000, 10000000, 0, 3000000, 3000000, 3000000,
           3000000, 3000000, 3000000, 3000000, 3000000>>

\* c = jnp.float32(299792.458), kept as a named constant inside terms.
c == <<"const", "c_299792.458">>

NumParams == 12     \* model.init(..., jnp.ones(12,), ...)
EncDim == 64        \* frequency_encoding(..., dimension=64)

\* Rows of the first Dense kernel, fixed when model.init traces the network.
KernelRows == NumParams + EncDim


(***************************************************************************)
(* scale_spectra_parameters.  Each line is (x - min_p[i])/(max_p[i] -      *)
(* min_p[i]): Python evaluates max_p[i] - min_p[i] on its own floats, and  *)
(* the two Python scalars are converted to float32 when they meet the      *)
(* float32 operand.                                                        *)
(***************************************************************************)
\* The float32 of each bound and of each difference max_p[i] - min_p[i].
BoundLiterals ==
  {min_p[i] : i \in DOMAIN min_p} \cup {max_p[i] - min_p[i] : i \in DOMAIN min_p}

BoundF32 == [n \in BoundLiterals |-> F32FromMicro(n)]

ScaleLine(x, lo, hi) == F32Div(F32Sub(x, BoundF32[lo]), BoundF32[hi - lo])

\* Fault variant: the a_Fe line scaled with the bounds of me.
scale_spectra_parameters_me_bounds(log_teff, logg, vmic, me, a_Mn, a_Fe, a_Si, a_Ca, a_C, a_N, a_O, a_Hg) ==
  << ScaleLine(log_teff, min_p[1], max_p[1]),
     ScaleLine(logg, min_p[2], max_p[2]),
     ScaleLine(vmic, min_p[3], max_p[3]),
     ScaleLine(me, min_p[4], max_p[4]),
     ScaleLine(a_Mn, min_p[5], max_p[5]),
     ScaleLine(a_Fe, min_p[4], max_p[4]),
     ScaleLine(a_Si, min_p[7], max_p[7]),
     ScaleLine(a_Ca, min_p[8], max_p[8]),
     ScaleLine(a_C, min_p[9], max_p[9]),
     ScaleLine(a_N, min_p[10], max_p[10]),
     ScaleLine(a_O, min_p[11], max_p[11]),
     ScaleLine(a_Hg, min_p[12], max_p[12]) >>

scale_spectra_parameters(log_teff, logg, vmic, me, a_Mn, a_Fe, a_Si, a_Ca, a_C, a_N, a_O, a_Hg) ==
  << ScaleLine(log_teff, min_p[1], max_p[1]),
     ScaleLine(logg, min_p[2], max_p[2]),
     ScaleLine(vmic, min_p[3], max_p[3]),
     ScaleLine(me, min_p[4], max_p[4]),
     ScaleLine(a_Mn, min_p[5], max_p[5]),
     ScaleLine(a_Fe, min_p[6], max_p[6]),
     ScaleLine(a_Si, min_p[7], max_p[7]),
     ScaleLine(a_Ca, min_p[8], max_p[8]),
     ScaleLine(a_C, min_p[9], max_p[9]),
     ScaleLine(a_N, min_p[10], max_p[10]),
     ScaleLine(a_O, min_p[11], max_p[11]),
     ScaleLine(a_Hg, min_p[12], max_p[12]) >>

\* The call of the scaler on a 12-tuple of arguments.
ScaleArgs(a) ==
  scale_spectra_parameters(a[1], a[2], a[3], a[4], a[5], a[6], a[7], a[8],
                           a[9], a[10], a[11], a[12])

(***************************************************************************)
(* generate_spectrum_overabundance_params and its vmapped form.            *)
(***************************************************************************)
\* jnp.log10(teff) in float32, for the effective temperatures of the model.
Log10Teff(teff) ==
  CASE teff = 1000  -> F32(0, 12582912, -22)
    [] teff = 7000  -> F32(0, 16127510, -22)
    [] teff = 8500  -> F32(0, 16481178, -22)
    [] teff = 10000 -> F32(0, 8388608, -21)

\* element not in OVERABUNDANCES
InvalidElement(element) == \A k \in DOMAIN OVERABUNDANCES : OVERABUNDANCES[k] # element

\* Fault variant: the slot after the element's own.
indexOf_next(element) ==
  ((CHOOSE k \in DOMAIN OVERABUNDANCES : OVERABUNDANCES[k] = element) % Len(OVERABUNDANCES)) + 1

\* operator.indexOf(OVERABUNDANCES, element), counted from 1
indexOf(element) == CHOOSE k \in DOMAIN OVERABUNDANCES : OVERABUNDANCES[k] = element

\* input_params.at[element_index].set(abundance), input_params = jnp.zeros(8)
AbundanceSlots(abundance, element) ==
  [k \in 1..Len(OVERABUNDANCES) |-> IF k = indexOf(element) THEN abundance ELSE Zero32]

\* The twelve arguments the scaler is called with.
GenerateScalerArgs(teff, logg, vmic, me, abundance, element) ==
  <<Log10Teff(teff), logg, vmic, me>> \o AbundanceSlots(abundance, element)

\* The steps of one run of the function body, in the order of the source.
GenerateSteps(element) ==
  <<"element_check">> \o
  (IF InvalidElement(element) THEN <<"raise_ValueError">>
   ELSE <<"indexOf", "zeros", "at_set", "log10", "scale", "array">>)

\* The scaled vector of the four stellar parameters and the eight slots.
GenerateRow(teff, logg, vmic, me, slots) ==
  Arr(ScaleArgs(<<Log10Teff(teff), logg, vmic, me>> \o slots))

\* Fault variant: an unknown element is ignored, every slot left at 0.0.
generate_spectrum_overabundance_params_unchecked(teff, logg, vmic, me, abundance, element) ==
  IF InvalidElement(element)
  THEN GenerateRow(teff, logg, vmic, me, [k \in 1..Len(OVERABUNDANCES) |-> Zero32])
  ELSE GenerateRow(teff, logg, vmic, me, AbundanceSlots(abundance, element))

generate_spectrum_overabundance_params(teff, logg, vmic, me, abundance, element) ==
  IF InvalidElement(element) THEN Err("ValueError_element")
  ELSE GenerateRow(teff, logg, vmic, me, AbundanceSlots(abundance, element))

\* vmap(..., in_axes=(None, None, None, None, 0, None)): one mapped argument.
generate_spectrum_overabundance_params_vec(teff, logg, vmic, me, abundances, element) ==
  LET ax == VmapAxis({abundances})
  IN  IF IsErr(ax) THEN ax
      ELSE Stack([i \in 1..ax[2] |->
                    generate_spectrum_overabundance_params(
                        teff, logg, vmic, me, At(abundances, i), element)])

(***************************************************************************)
(* frequency_encoding and SpectrumMLP.__call__.  w names the weights the   *)
(* global params is bound to when the network is applied.                  *)
(***************************************************************************)
\* sin(2*pi/periods*x): a vector of EncDim features of the scalar x.
frequency_encoding(x) == <<"enc", x>>

SpectrumMLP_call(w, parameters, log_wave) ==
  IF Rank(log_wave) > 1 \/ (Rank(log_wave) = 1 /\ AxisSize(log_wave) \notin {1, EncDim})
  THEN Err("TypeError_broadcast")
  ELSE IF Rank(parameters) > 1 THEN Err("ValueError_hstack")
  ELSE LET enc_w == frequency_encoding(log_wave)
           width == (IF IsArr(parameters) THEN AxisSize(parameters) ELSE 1) + EncDim
       IN  IF width # KernelRows THEN Err("ScopeParamShapeError")
           ELSE Arr(<< <<"flux", w, parameters, enc_w>> >>)

(***************************************************************************)
(* spice/spectra.py: the prediction entry points.                          *)
(***************************************************************************)
\* __predict_spectrum = jit(vmap(lambda ..., in_axes=(None, 0), out_axes=0))
spectra__predict_spectrum(w, spectrum_parameters, log_wavelengths) ==
  LET ax == VmapAxis({log_wavelengths})
  IN  IF IsErr(ax) THEN ax
      ELSE Stack([i \in 1..ax[2] |->
                    SpectrumMLP_call(w, spectrum_parameters, At(log_wavelengths, i))])

\* Fault variant: the wavelengths encoded without the log transform.
spectra_predict_spectrum_nolog(w, spectrum_parameters, wavelengths) ==
  Flatten(spectra__predict_spectrum(w, spectrum_parameters, wavelengths))

spectra_predict_spectrum(w, spectrum_parameters, wavelengths) ==
  Flatten(spectra__predict_spectrum(w, spectrum_parameters, Log10E(wavelengths)))

\* predict_spectra = jit(vmap(predict_spectrum, in_axes=(0, 0)))
spectra_predict_spectra(w, parameters, wavelengths) ==
  LET ax == VmapAxis({parameters, wavelengths})
  IN  IF IsErr(ax) THEN ax
      ELSE Stack([i \in 1..ax[2] |->
                    spectra_predict_spectrum(w, At(parameters, i), At(wavelengths, i))])

\* wavelengths*(1+radial_velocity/c)
redshift_wavelengths(wavelengths, radial_velocity) ==
  MulE(wavelengths, <<"add", Lit(1), <<"div", radial_velocity, c>> >>)

\* jit(vmap(redshift_wavelengths, in_axes=(None, 0), out_axes=0))
redshift_wavelengths_vec(wavelengths, radial_velocities) ==
  LET ax == VmapAxis({radial_velocities})
  IN  IF IsErr(ax) THEN ax
      ELSE Stack([i \in 1..ax[2] |->
                    redshift_wavelengths(wavelengths, At(radial_velocities, i))])

(***************************************************************************)
(* spectrum_integrator/spectrum_mlp.py: the prediction entry points.       *)
(***************************************************************************)
\* predict_spectrum = jit(vmap(lambda ..., in_axes=(None, 0), out_axes=0))
mlp_predict_spectrum(w, spectrum_parameters, log_wavelengths) ==
  LET ax == VmapAxis({log_wavelengths})
  IN  IF IsErr(ax) THEN ax
      ELSE Stack([i \in 1..ax[2] |->
                    SpectrumMLP_call(w, spectrum_parameters, At(log_wavelengths, i))])

\* predict_spectra = jit(vmap(predict_spectrum, in_axes=(0, None), out_axes=0))
mlp_predict_spectra(w, parameters, log_wavelengths) ==
  LET ax == VmapAxis({parameters})
  IN  IF IsErr(ax) THEN ax
      ELSE Stack([i \in 1..ax[2] |->
                    mlp_predict_spectrum(w, At(parameters, i), log_wavelengths)])

\* predict_spectrum(params, log_wave+jnp.log10(1+rot_vel/c))
predict_spectrum_with_rot_velocity(w, params, log_wave, rot_vel) ==
  mlp_predict_spectrum(w, params,
      AddE(log_wave, <<"log10", <<"add", Lit(1), <<"div", rot_vel, c>> >> >>))

\* Fault variant: every row shifted by the first velocity.
predict_spectra_with_rot_velocity_first(w, parameters, log_wave, rot_vels) ==
  LET ax == VmapAxis({parameters, rot_vels})
  IN  IF IsErr(ax) THEN ax
      ELSE Stack([i \in 1..ax[2] |->
                    predict_spectrum_with_rot_velocity(
                        w, At(parameters, i), log_wave, At(rot_vels, 1))])

\* jit(vmap(predict_spectrum_with_rot_velocity, in_axes=(0, None, 0)))
predict_spectra_with_rot_velocity(w, parameters, log_wave, rot_vels) ==
  LET ax == VmapAxis({parameters, rot_vels})
  IN  IF IsErr(ax) THEN ax
      ELSE Stack([i \in 1..ax[2] |->
                    predict_spectrum_with_rot_velocity(
                        w, At(parameters, i), log_wave, At(rot_vels, i))])

\* jnp.linspace(jnp.log10(wave_min), jnp.log10(wave_max), wave_points)
LogWaveGrid(wave_min, wave_max, wave_points) ==
  Arr([k \in 1..wave_points |->
         <<"linspace", <<"log10", wave_min>>, <<"log10", wave_max>>, k, wave_points>>])

\* The function spectra_prediction_function returns, applied.
spectra_prediction_function(w, wave_min, wave_max, wave_points, parameters, rotation_map) ==
  Reshape(OneMinusE(predict_spectra_with_rot_velocity(
              w, parameters, LogWaveGrid(wave_min, wave_max, wave_points), rotation_map)),
          wave_points)

(***************************************************************************)
(* Module initialisation: the top-level statements of each file, by line.  *)
(*   uses   names the statement evaluates when it runs                     *)
(*   annot  names that occur only in its annotations                       *)
(*   binds  names it binds in the module's namespace                       *)
(*   w      what it binds the global params to ("same": not at all)        *)
(***************************************************************************)
Modules == {"spectra", "mlp"}

Stmt(line, uses, annot, binds, w) ==
  [line |-> line, uses |-> uses, annot |-> annot, binds |-> binds, w |-> w]

\* Lines 1-9: the imports.  typing_names and package differ between the files.
ImportStmts(typing_names, package) ==
  << Stmt(1, {}, {}, {"indexOf"}, "same"),
     Stmt(2, {}, {}, typing_names, "same"),
     Stmt(3, {}, {}, {"partial"}, "same"),
     Stmt(4, {}, {}, {"jnp"}, "same"),
     Stmt(5, {}, {}, {"jit", "vmap", "random"}, "same"),
     Stmt(6, {}, {}, {"nn"}, "same"),
     Stmt(7, {}, {}, {"from_bytes"}, "same"),
     Stmt(8, {}, {}, {package}, "same"),
     Stmt(9, {}, {}, {"resources"}, "same") >>

\* Lines 12-134: the same text in both files but for the package in line 132.
SharedStmts(package) ==
  << Stmt(12, {"jnp"}, {"jnp"}, {"c"}, "same"),
     Stmt(15, {}, {"List"}, {"OVERABUNDANCES"}, "same"),
     Stmt(18, {}, {"jnp"}, {"scale_spectra_parameters"}, "same"),
     Stmt(67, {"partial", "jit"}, {"jnp"},
          {"generate_spectrum_overabundance_params"}, "same"),
     Stmt(97, {"vmap", "generate_spectrum_overabundance_params"}, {},
          {"generate_spectrum_overabundance_params_vec"}, "same"),
     Stmt(100, {}, {}, {"frequency_encoding"}, "same"),
     Stmt(105, {"nn", "Sequence"}, {"jnp"}, {"SpectrumMLP"}, "same"),
     Stmt(128, {}, {}, {"architecture"}, "same"),
     Stmt(129, {"SpectrumMLP", "architecture"}, {}, {"model"}, "same"),
     Stmt(130, {"model", "random", "jnp"}, {}, {"params"}, "template"),
     Stmt(132, {"resources", package}, {}, {"bin_data"}, "same"),
     Stmt(133, {"from_bytes", "params", "bin_data"}, {}, {"loaded_params"}, "same"),
     Stmt(134, {"loaded_params"}, {}, {"params"}, "loaded") >>

spectra_stmts ==
  ImportStmts({"List", "Sequence"}, "spice") \o SharedStmts("spice") \o
  << Stmt(136, {"jit", "vmap"}, {}, {"__predict_spectrum"}, "same"),
     Stmt(138, {}, {"jnp"}, {"predict_spectrum"}, "same"),
     Stmt(151, {"jit", "vmap", "predict_spectrum"}, {}, {"predict_spectra"}, "same"),
     Stmt(153, {"jnp"}, {"jnp"}, {"c"}, "same"),
     Stmt(155, {}, {"jnp"}, {"redshift_wavelengths"}, "same"),
     Stmt(158, {"jit", "vmap", "redshift_wavelengths"}, {},
          {"redshift_wavelengths_vec"}, "same") >>

mlp_stmts ==
  ImportStmts({"Callable", "Sequence"}, "spectrum_integrator") \o
  SharedStmts("spectrum_integrator") \o
  << Stmt(136, {"jit", "vmap"}, {}, {"predict_spectrum"}, "same"),
     Stmt(142, {"jit", "vmap", "predict_spectrum"}, {}, {"predict_spectra"}, "same"),
     Stmt(144, {}, {"jnp"}, {"predict_spectrum_with_rot_velocity"}, "same"),
     Stmt(160, {"jit", "vmap", "predict_spectrum_with_rot_velocity"}, {},
          {"predict_spectra_with_rot_velocity"}, "same"),
     Stmt(162, {}, {"jnp", "Callable"}, {"spectra_prediction_function"}, "same") >>

Program(m) == IF m = "spectra" THEN spectra_stmts ELSE mlp_stmts

(***************************************************************************)
(* State.                                                                  *)
(*   deferred  whether the interpreter defers the evaluation of            *)
(*             annotations (Python 3.14 on) or evaluates them as the       *)
(*             statement runs (Python up to 3.13); fixed for a run         *)
(*   status    per module: "unloaded", "running", "ready", "error"         *)
(*   pc        per module: the index in Program(m) of the next statement   *)
(*   ns        per module: the names bound so far                          *)
(*   params    per module: what the global params is bound to              *)
(*   loads     per module: how often params was bound to the loaded        *)
(*             weights                                                     *)
(*   last      the most recent call of an entry point and its outcome      *)
(***************************************************************************)
VARIABLES deferred, status, pc, ns, params, loads, last

vars == <<deferred, status, pc, ns, params, loads, last>>

NoCall == [mod |-> "none", fn |-> "none", args |-> <<>>, out |-> <<"none">>,
           scaler_args |-> <<>>, steps |-> <<>>]

Call(m, fn, args, out) ==
  [mod |-> m, fn |-> fn, args |-> args, out |-> out, scaler_args |-> <<>>, steps |-> <<>>]

Init ==
  /\ deferred \in BOOLEAN
  /\ status = [m \in Modules |-> "unloaded"]
  /\ pc = [m \in Modules |-> 1]
  /\ ns = [m \in Modules |-> {}]
  /\ params = [m \in Modules |-> "unbound"]
  /\ loads = [m \in Modules |-> 0]
  /\ last = NoCall

\* The names a statement needs bound when it runs.
Needed(st) == st.uses \cup (IF deferred THEN {} ELSE st.annot)

\* import of module m begins; one import runs at a time.
StartImport(m) ==
  /\ last = NoCall
  /\ status[m] = "unloaded"
  /\ \A o \in Modules : status[o] # "running"
  /\ status' = [status EXCEPT ![m] = "running"]
  /\ UNCHANGED <<deferred, pc, ns, params, loads, last>>

\* Fault variant: the loaded weights are never bound to params.
ParamsAfter_template(st, old) == IF st.w = "template" THEN st.w ELSE old

\* What the global params is bound to once statement st has run.
ParamsAfter(st, old) == IF st.w = "same" THEN old ELSE st.w

\* The next top-level statement of m runs, or raises NameError.
ExecStmt(m) ==
  /\ status[m] = "running"
  /\ LET st == Program(m)[pc[m]]
     IN  IF Needed(st) \subseteq ns[m]
         THEN /\ ns' = [ns EXCEPT ![m] = @ \cup st.binds]
              /\ params' = [params EXCEPT ![m] = ParamsAfter(st, @)]
              /\ loads' = [loads EXCEPT ![m] = IF st.w = "loaded" THEN @ + 1 ELSE @]
              /\ pc' = [pc EXCEPT ![m] = @ + 1]
              /\ status' = [status EXCEPT
                              ![m] = IF pc[m] = Len(Program(m)) THEN "ready" ELSE "running"]
         ELSE /\ status' = [status EXCEPT ![m] = "error"]
              /\ UNCHANGED <<ns, params, loads, pc>>
  /\ UNCHANGED <<deferred, last>>

\* Entry point fn of module m can be called: the module is imported, the name
\* is bound, no import is running and the previous call has returned.
Callable(m, fn) ==
  /\ last = NoCall
  /\ status[m] = "ready"
  /\ fn \in ns[m]
  /\ \A o \in Modules : status[o] # "running"

(***************************************************************************)
(* The inputs the entry points are called with.                            *)
(***************************************************************************)
SeqsUpTo(S, n) == UNION {[1..k -> S] : k \in 1..n}

\* Parameter set k: twelve distinct opaque values.
ParamVec(k) == Arr([i \in 1..NumParams |-> Lit(100 * k + i)])

ParamVecs == {ParamVec(k) : k \in 1..MaxStars}

\* Batches of up to MaxRows different parameter sets, in every order.
Batches ==
  {Arr([i \in DOMAIN b |-> ParamVec(b[i])]) :
     b \in {q \in SeqsUpTo(1..MaxStars, MaxRows) :
              \A i, j \in DOMAIN q : i # j => q[i] # q[j]}}

WaveVals == {4000, 5000}

Grids == {Arr([j \in DOMAIN g |-> Lit(g[j])]) : g \in SeqsUpTo(WaveVals, MaxWave)}

\* Rank-2 grids: a grid repeated, one row per parameter set.
Grids2 == {Arr([i \in 1..n |-> g]) : n \in 1..MaxRows, g \in Grids}

Vels == {-50, 0, 50}

VelMaps == {Arr([i \in DOMAIN v |-> Lit(v[i])]) : v \in SeqsUpTo(Vels, MaxRows)}

\* Rotation maps with as many velocities as a parameter set has values.
VelMaps12 == {Arr([i \in 1..NumParams |-> Lit(v)]) : v \in Vels}

WaveRanges == {<<Lit(4000), Lit(5000)>>}

ScalerLevels == {"min", "max", "below", "above", "mid"}

ScalerOvershoot == 100000

\* The raw value of component i at a level, in units of 10^-6.
ScalerValue(i, lvl) ==
  CASE lvl = "min"   -> min_p[i]
    [] lvl = "max"   -> max_p[i]
    [] lvl = "below" -> min_p[i] - ScalerOvershoot
    [] lvl = "above" -> max_p[i] + ScalerOvershoot
    [] lvl = "mid"   -> (min_p[i] + max_p[i]) \div 2

TeffVals == {7000, 8500, 10000}

\* (logg, vmic, me) in units of 10^-6.
Profiles == {<<4000000, 2000000, -500000>>}

AbundanceVals == {-3000000, 2000000, 3500000}

\* The float32 inputs of the model, by their decimal literal.
InputF32 ==
  [n \in {ScalerValue(i, lvl) : i \in 1..NumParams, lvl \in ScalerLevels}
          \cup AbundanceVals \cup {pr[k] : pr \in Profiles, k \in 1..3}
     |-> F32FromMicro(n)]

\* Component i at level a, every other component at level b.
ScalerVec(i, a, b) ==
  [j \in 1..NumParams |-> InputF32[ScalerValue(j, IF j = i THEN a ELSE b)]]

Elements == {OVERABUNDANCES[k] : k \in DOMAIN OVERABUNDANCES} \cup {"Xx", "fe"}

(***************************************************************************)
(* Calls of the entry points.                                              *)
(***************************************************************************)
CallScale(m) ==
  /\ Callable(m, "scale_spectra_parameters")
  /\ \E i \in 1..NumParams, a \in ScalerLevels, b \in ScalerLevels :
       LET args == ScalerVec(i, a, b)
       IN  last' = [Call(m, "scale_spectra_parameters", args, Arr(ScaleArgs(args)))
                      EXCEPT !.scaler_args = <<args>>]
  /\ UNCHANGED <<deferred, status, pc, ns, params, loads>>

CallGenerate(m) ==
  /\ Callable(m, "generate_spectrum_overabundance_params")
  /\ \E teff \in TeffVals, pr \in Profiles, ab \in AbundanceVals, element \in Elements :
       LET logg == InputF32[pr[1]]
           vmic == InputF32[pr[2]]
           me   == InputF32[pr[3]]
           abundance == InputF32[ab]
       IN  last' = [mod |-> m, fn |-> "generate_spectrum_overabundance_params",
                    args |-> <<teff, logg, vmic, me, abundance, element>>,
                    out |-> generate_spectrum_overabundance_params(
                                teff, logg, vmic, me, abundance, element),
                    scaler_args |->
                      IF InvalidElement(element) THEN <<>>
                      ELSE <<GenerateScalerArgs(teff, logg, vmic, me, abundance, element)>>,
                    steps |-> GenerateSteps(element)]
  /\ UNCHANGED <<deferred, status, pc, ns, params, loads>>

CallGenerateVec(m) ==
  /\ Callable(m, "generate_spectrum_overabundance_params_vec")
  /\ \E teff \in TeffVals, pr \in Profiles, abs \in SeqsUpTo(AbundanceVals, MaxRows),
        element \in Elements :
       LET logg == InputF32[pr[1]]
           vmic == InputF32[pr[2]]
           me   == InputF32[pr[3]]
           abundances == Arr([i \in DOMAIN abs |-> InputF32[abs[i]]])
       IN  last' = [mod |-> m, fn |-> "generate_spectrum_overabundance_params_vec",
                    args |-> <<teff, logg, vmic, me, abundances, element>>,
                    out |-> generate_spectrum_overabundance_params_vec(
                                teff, logg, vmic, me, abundances, element),
                    scaler_args |->
                      IF InvalidElement(element) THEN <<>>
                      ELSE [i \in DOMAIN abs |->
                              GenerateScalerArgs(teff, logg, vmic, me,
                                                 At(abundances, i), element)],
                    steps |-> GenerateSteps(element)]
  /\ UNCHANGED <<deferred, status, pc, ns, params, loads>>

\* predict_spectrum of either module.
CallPredictSpectrum(m) ==
  /\ Callable(m, "predict_spectrum")
  /\ \E p \in ParamVecs, g \in Grids :
       last' = Call(m, "predict_spectrum", <<p, g>>,
                    IF m = "spectra" THEN spectra_predict_spectrum(params[m], p, g)
                    ELSE mlp_predict_spectrum(params[m], p, g))
  /\ UNCHANGED <<deferred, status, pc, ns, params, loads>>

\* predict_spectra of either module, with one shared grid or one grid per row.
CallPredictSpectra(m) ==
  /\ Callable(m, "predict_spectra")
  /\ \E b \in Batches, g \in Grids \cup Grids2 :
       last' = Call(m, "predict_spectra", <<b, g>>,
                    IF m = "spectra" THEN spectra_predict_spectra(params[m], b, g)
                    ELSE mlp_predict_spectra(params[m], b, g))
  /\ UNCHANGED <<deferred, status, pc, ns, params, loads>>

CallRedshift(m) ==
  /\ Callable(m, "redshift_wavelengths_vec")
  /\ \E g \in Grids, v \in VelMaps :
       last' = Call(m, "redshift_wavelengths_vec", <<g, v>>, redshift_wavelengths_vec(g, v))
  /\ UNCHANGED <<deferred, status, pc, ns, params, loads>>

CallWithRotVelocity(m) ==
  /\ Callable(m, "predict_spectrum_with_rot_velocity")
  /\ \E p \in ParamVecs, g \in Grids, v \in Vels :
       last' = Call(m, "predict_spectrum_with_rot_velocity", <<p, g, Lit(v)>>,
                    predict_spectrum_with_rot_velocity(params[m], p, g, Lit(v)))
  /\ UNCHANGED <<deferred, status, pc, ns, params, loads>>

CallSpectraWithRotVelocity(m) ==
  /\ Callable(m, "predict_spectra_with_rot_velocity")
  /\ \E b \in Batches, g \in Grids, v \in VelMaps :
       last' = Call(m, "predict_spectra_with_rot_velocity", <<b, g, v>>,
                    predict_spectra_with_rot_velocity(params[m], b, g, v))
  /\ UNCHANGED <<deferred, status, pc, ns, params, loads>>

\* spectra_prediction_function(wave_min, wave_max, wave_points) and a call of
\* the function it returns, with one parameter set or one per disk point.
CallDiskDriver(m) ==
  /\ Callable(m, "spectra_prediction_function")
  /\ \E wr \in WaveRanges, wave_points \in 1..MaxWave,
        p \in ParamVecs \cup Batches, r \in VelMaps \cup VelMaps12 :
       last' = Call(m, "spectra_prediction_function", <<wr[1], wr[2], wave_points, p, r>>,
                    spectra_prediction_function(params[m], wr[1], wr[2], wave_points, p, r))
  /\ UNCHANGED <<deferred, status, pc, ns, params, loads>>

\* The caller takes the outcome of the call; the next call can begin.
Return ==
  /\ last # NoCall
  /\ last' = NoCall
  /\ UNCHANGED <<deferred, status, pc, ns, params, loads>>

Next ==
  \/ Return
  \/ \E m \in Modules :
       \/ StartImport(m)
       \/ ExecStmt(m)
       \/ CallScale(m)
       \/ CallGenerate(m)
       \/ CallGenerateVec(m)
       \/ CallPredictSpectrum(m)
       \/ CallPredictSpectra(m)
       \/ CallRedshift(m)
       \/ CallWithRotVelocity(m)
       \/ CallSpectraWithRotVelocity(m)
       \/ CallDiskDriver(m)

Spec == Init /\ [][Next]_vars


(***************************************************************************)
(* Properties.  Each is a predicate on the outcome of the most recent call *)
(* or on the state of the module initialisation.                           *)
(***************************************************************************)
\* The network's flux for parameter set p at grid entry wl, as module m
\* reads its grid: spice.spectra takes wavelengths, spectrum_mlp takes
\* log-wavelengths.
NetFlux(m, p, wl) ==
  <<"flux", params[m], p, frequency_encoding(IF m = "spectra" THEN <<"log10", wl>> ELSE wl)>>

\* The weights a flux value, or its complement, was computed with.
WeightsOf(t) == IF t[1] = "sub" THEN t[3][2] ELSE t[2]

PredictionFns ==
  {"predict_spectrum", "predict_spectra", "predict_spectrum_with_rot_velocity",
   "predict_spectra_with_rot_velocity", "spectra_prediction_function"}

\* C1: predict_spectra of either module, called with N parameter sets and one
\* shared grid of M wavelengths, returns an N x M array whose entry (i, j) is
\* the network's flux for parameter set i at wavelength j, also when N # M.
C1_SharedGridBatch ==
  (last.fn = "predict_spectra" /\ Rank(last.args[2]) = 1) =>
     LET b == last.args[1]
         g == last.args[2]
     IN  last.out = Arr([i \in 1..AxisSize(b) |->
                          Arr([j \in 1..AxisSize(g) |-> NetFlux(last.mod, At(b, i), At(g, j))])])

\* C2: the function spectra_prediction_function returns, called with one
\* star's 12-vector and P velocities, returns P rows of wave_points values,
\* each 1 - flux of that star at the grid point shifted by the row's velocity.
C2_DiskDriverOneStar ==
  (last.fn = "spectra_prediction_function" /\ Rank(last.args[4]) = 1) =>
     LET grid == LogWaveGrid(last.args[1], last.args[2], last.args[3])
         star == last.args[4]
         r == last.args[5]
     IN  last.out =
           Arr([p \in 1..AxisSize(r) |->
                 Arr([k \in 1..last.args[3] |->
                       <<"sub", Lit(1),
                         <<"flux", params[last.mod], star,
                           frequency_encoding(
                             <<"add", At(grid, k),
                               <<"log10", <<"add", Lit(1), <<"div", At(r, p), c>> >> >> >>)>> >>])])

GenerateFns ==
  {"generate_spectrum_overabundance_params", "generate_spectrum_overabundance_params_vec"}

BuildSteps == {"indexOf", "zeros", "at_set", "log10", "scale", "array"}

\* The element names of the specification, by their index.
SpecElements ==
  [Mn |-> 0, Fe |-> 1, Si |-> 2, Ca |-> 3, C |-> 4, N |-> 5, O |-> 6, Hg |-> 7]

\* C4: an element that is not one of the eight names makes
\* generate_spectrum_overabundance_params raise ValueError before any array
\* is built or scaled; the batched form returns all its rows or raises, never
\* a partial batch.
C4_InvalidElementRaises ==
  (last.fn \in GenerateFns) =>
     /\ (last.args[6] \notin DOMAIN SpecElements) =>
           /\ last.out = Err("ValueError_element")
           /\ last.scaler_args = <<>>
           /\ \A k \in DOMAIN last.steps : last.steps[k] \notin BuildSteps
     /\ (last.fn = "generate_spectrum_overabundance_params_vec") =>
           \/ IsErr(last.out)
           \/ /\ IsArr(last.out)
              /\ AxisSize(last.out) = AxisSize(last.args[5])
              /\ \A i \in 1..AxisSize(last.out) :
                    IsArr(At(last.out, i)) /\ AxisSize(At(last.out, i)) = NumParams

\* The batched generator has been called with two abundances and a name that
\* differs from a valid one by case only, and has raised.
C4_Witness ==
  /\ last.fn = "generate_spectrum_overabundance_params_vec"
  /\ last.args[6] = "fe"
  /\ AxisSize(last.args[5]) = 2
  /\ IsErr(last.out)
  /\ last.steps = <<"element_check", "raise_ValueError">>

\* The abundance of row r of a call of the generator.
AbundanceOf(r) ==
  IF last.fn = "generate_spectrum_overabundance_params" THEN last.args[5]
  ELSE At(last.args[5], r)

RowsOf ==
  IF last.fn = "generate_spectrum_overabundance_params" THEN 1 ELSE AxisSize(last.args[5])

\* Row r of the result of a call of the generator.
OutRow(r) ==
  IF last.fn = "generate_spectrum_overabundance_params" THEN last.out ELSE At(last.out, r)

\* C5: for a valid element with index k and abundance a, the vector handed to
\* the scaler has a in abundance slot k and 0.0 in the seven other slots, the
\* slots being positions 4..11 of the 12-vector; in the batched form row i is
\* built from abundance i.
C5_OneHotAbundance ==
  (last.fn \in GenerateFns /\ last.args[6] \in DOMAIN SpecElements) =>
     LET k == SpecElements[last.args[6]]
     IN  /\ Len(last.scaler_args) = RowsOf
         /\ \A r \in 1..RowsOf :
              /\ Len(last.scaler_args[r]) = NumParams
              /\ last.scaler_args[r][1] = Log10Teff(last.args[1])
              /\ \A q \in 2..4 : last.scaler_args[r][q] = last.args[q]
              /\ \A slot \in 0..7 :
                   last.scaler_args[r][4 + slot + 1] =
                     IF slot = k THEN AbundanceOf(r) ELSE Zero32
              /\ OutRow(r) = Arr(ScaleArgs(last.scaler_args[r]))

\* The batched generator has built two rows for Si from two different
\* non-zero abundances.
C5_Witness ==
  /\ last.fn = "generate_spectrum_overabundance_params_vec"
  /\ last.args[6] = "Si"
  /\ AxisSize(last.args[5]) = 2
  /\ At(last.args[5], 1) # At(last.args[5], 2)
  /\ At(last.args[5], 1) # Zero32
  /\ At(last.args[5], 2) # Zero32
  /\ last.scaler_args[1][7] = At(last.args[5], 1)
  /\ last.scaler_args[2][7] = At(last.args[5], 2)
  /\ last.scaler_args[1][6] = Zero32

\* The bounds table of the specification, index 0 first, in units of 10^-6.
SpecMin == <<3845098, 3500000, 0, -1000000, -3000000, -3000000, -3000000,
             -3000000, -3000000, -3000000, -3000000, -3000000>>

SpecMax == <<3929419, 5000000, 10000000, 0, 3000000, 3000000, 3000000,
             3000000, 3000000, 3000000, 3000000, 3000000>>

\* (x - min_i)/(max_i - min_i) for the component with index i, in float32.
SpecScaled(i, x) ==
  F32Div(F32Sub(x, F32FromMicro(SpecMin[i + 1])),
         F32FromMicro(SpecMax[i + 1] - SpecMin[i + 1]))

\* 1 + 2^-22, the float32 two steps above 1.0.
OnePlus2Ulp == F32(0, 2^(MantBits - 1) + 2, 1 - MantBits)

\* What holds of every component of a call of the scaler, whatever the
\* component's bound maps to: the output is the formula of component i
\* applied to input i alone, 0.0 at the minimum, and outside [0, 1] for an
\* input outside the bounds.
ScalerComponent(i) ==
  LET x == last.args[i + 1]
      y == At(last.out, i + 1)
      lo == F32FromMicro(SpecMin[i + 1])
      hi == F32FromMicro(SpecMax[i + 1])
  IN  /\ y = SpecScaled(i, x)
      /\ (x = lo) => y = Zero32
      /\ F32Lt(x, lo) => F32Lt(y, Zero32)
      /\ F32Lt(hi, x) => F32Lt(One32, y)

C7_LogTransformBothModules ==
  (last.fn = "predict_spectrum") =>
     LET p == last.args[1]
         g == last.args[2]
     IN  last.out = Arr([j \in 1..AxisSize(g) |->
                          <<"flux", params[last.mod], p,
                            frequency_encoding(<<"log10", At(g, j)>>)>>])

\* C7: spice.spectra.predict_spectrum log-transforms the M angstrom
\* wavelengths it is given and returns a flat sequence of exactly M flux
\* values; spectrum_integrator.spectrum_mlp.predict_spectrum encodes the M
\* values it is given as they are, with no log transform, and returns M rows
\* of one flux value each.
C7_LogTransformPerModule ==
  (last.fn = "predict_spectrum") =>
     LET p == last.args[1]
         g == last.args[2]
     IN  IF last.mod = "spectra"
         THEN last.out = Arr([j \in 1..AxisSize(g) |->
                               <<"flux", params[last.mod], p,
                                 frequency_encoding(<<"log10", At(g, j)>>)>>])
         ELSE last.out = Arr([j \in 1..AxisSize(g) |->
                               Arr(<< <<"flux", params[last.mod], p,
                                        frequency_encoding(At(g, j))>> >>)])

\* predict_spectrum of spectrum_mlp has been evaluated on two different
\* wavelengths.
C7_Witness ==
  /\ last.fn = "predict_spectrum"
  /\ last.mod = "mlp"
  /\ AxisSize(last.args[2]) = 2
  /\ At(last.args[2], 1) # At(last.args[2], 2)
  /\ IsArr(last.out)
  /\ Rank(last.out) = 2

\* C9: the weights are loaded exactly once, while the module is initialised
\* and before any prediction entry point is bound, and every prediction in
\* any sequence of calls is computed with the loaded weights, never with the
\* initialisation template.
C9_LoadedWeightsOnly ==
  /\ \A m \in Modules :
       /\ loads[m] <= 1
       /\ (status[m] = "ready") => (params[m] = "loaded" /\ loads[m] = 1)
       /\ (ns[m] \cap PredictionFns # {}) => (params[m] = "loaded" /\ loads[m] = 1)
  /\ (last.fn \in PredictionFns /\ IsArr(last.out)) =>
        \A k \in DOMAIN Ravel(last.out) : WeightsOf(Ravel(last.out)[k]) = "loaded"

\* A batch prediction has returned flux values after both modules were
\* initialised.
C9_Witness ==
  /\ \A m \in Modules : status[m] = "ready"
  /\ last.fn = "predict_spectra"
  /\ IsArr(last.out)
  /\ Len(Ravel(last.out)) > 1

\* C10: the initialisation of each module completes: no top-level statement
\* raises, and every name a statement refers to, the names in type
\* annotations (List, Callable) included, is bound when the statement runs.
C10_InitCompletes ==
  \A m \in Modules :
     /\ status[m] # "error"
     /\ (status[m] = "running") =>
           (Program(m)[pc[m]].uses \cup Program(m)[pc[m]].annot) \subseteq ns[m]
====
